---- MODULE Spec2Model ----
(***************************************************************************)
(* Model of package web3 (gochain.go): NetworkURL, GetClient and the       *)
(* RPCClient methods.  The wrapped client library (goclient, crypto,       *)
(* hexutil, types) is the environment: every call into it returns a        *)
(* result chosen nondeterministically by the action that issues it.        *)
(* One caller drives the handle; WaitForReceipt is split into the steps    *)
(* at which the caller's context and the delay timer can interleave.       *)
(***************************************************************************)
EXTENDS Naturals, Sequences, FiniteSets

VARIABLES
    lookup,      \* last NetworkURL call: [network, url]
    prevLookup,  \* the NetworkURL call before it
    rpc,         \* the *RPCClient handle: [url, client]
    alive,       \* FALSE once log.Fatalf ended the process
    op,          \* method being run / last run
    pc,          \* "idle" | "call" | "select" | "returned"
    i,           \* WaitForReceipt loop counter
    calls,       \* TransactionReceipt calls begun in this invocation
    delays,      \* time.After timers started in this invocation
    cancelled,   \* ctx.Done() is closed
    timerFired,  \* the current time.After channel is ready
    trace,       \* library calls completed by this invocation, in order
    ret,         \* return values of the invocation: [val, err]
    id           \* the ID struct built by GetID

vars == <<lookup, prevLookup, rpc, alive, op, pc, i, calls, delays,
          cancelled, timerFired, trace, ret, id>>

(*************************** bounds ****************************************)
\* cap on the per-invocation call counter (never reached by the code)
CallCap == 8

(*************************** constants of the code *************************)
MaxRetries == 5

\* network names handed to NetworkURL
Networks ==
    {"", "mainnet", "testnet", "localhost", "ethereum", "ropsten",
     "Mainnet", "TESTNET", "rinkeby"}

(*************************** errors ****************************************)
NilErr == [kind |-> "nil", prefix |-> "", cause |-> ""]

\* the error a failing library call returns
LibErr(call) == [kind |-> "lib", prefix |-> "", cause |-> call]

\* errors.New(fmt.Sprintf(prefix + "%s", err))
Wrap(prefix, e) == [kind |-> "new", prefix |-> prefix, cause |-> e.cause]

CastErr == [kind |-> "new", prefix |-> "error casting public key to ECDSA",
            cause |-> ""]

\* ctx.Err() once Done is closed
CtxErr == [kind |-> "ctx", prefix |-> "", cause |-> "ctx"]

\* results a library call can hand back
LibResults(call, v) ==
    { [val |-> v, err |-> NilErr], [val |-> "nil", err |-> LibErr(call)] }

\* results of a call whose value and error are inspected separately
LooseResults(call, v) ==
    { [val |-> x, err |-> e] : x \in {v, "nil"}, e \in {NilErr, LibErr(call)} }

Receipts == {"receipt1", "receipt2", "nil"}

ReceiptResults ==
    { [val |-> r, err |-> NilErr] : r \in Receipts }
        \cup { [val |-> "nil", err |-> LibErr("TransactionReceipt")] }

NoRet == [val |-> "nil", err |-> NilErr]

ZeroID == [NetworkID |-> "nil", ChainID |-> "nil", GenesisHash |-> "zero"]

NoLookup == [network |-> "none", url |-> "none"]

NoClient == [url |-> "", client |-> [dialed |-> "nil"]]

(*************************** NetworkURL ************************************)
NetworkURL_mut(network) ==
    CASE network = "testnet"   -> "https://testnet-rpc.gochain.io"
      [] network = "mainnet"   -> "https://rpc.gochain.io"
      [] network = "localhost" -> "http://localhost:8545"
      [] network = "ethereum"  -> "https://main-rpc.linkpool.io"
      [] network = "ropsten"   -> "https://ropsten-rpc.linkpool.io"
      [] OTHER                 -> ""

NetworkURL(network) ==
    CASE network = "testnet"              -> "https://testnet-rpc.gochain.io"
      [] network \in {"mainnet", ""}      -> "https://rpc.gochain.io"
      [] network = "localhost"            -> "http://localhost:8545"
      [] network = "ethereum"             -> "https://main-rpc.linkpool.io"
      [] network = "ropsten"              -> "https://ropsten-rpc.linkpool.io"
      [] OTHER                            -> ""

Init ==
    /\ lookup = NoLookup
    /\ prevLookup = NoLookup
    /\ rpc = NoClient
    /\ alive = TRUE
    /\ op = "none"
    /\ pc = "idle"
    /\ i = 0
    /\ calls = 0
    /\ delays = 0
    /\ cancelled = FALSE
    /\ timerFired = FALSE
    /\ trace = <<>>
    /\ ret = NoRet
    /\ id = ZeroID

\* no invocation is in progress
Quiet == alive /\ pc \in {"idle", "returned"}

\* a method can be invoked on the handle
Usable == Quiet /\ rpc # NoClient

\* the loop variables of WaitForReceipt do not outlive an invocation
NoLoop ==
    /\ i' = 0
    /\ calls' = 0
    /\ delays' = 0
    /\ cancelled' = FALSE
    /\ timerFired' = FALSE

\* the caller resolves a network name before it dials
Resolve(network) ==
    /\ Quiet
    /\ rpc = NoClient
    /\ prevLookup' = lookup
    /\ lookup' = [network |-> network, url |-> NetworkURL(network)]
    /\ UNCHANGED <<rpc, alive, op, pc, i, calls, delays, cancelled,
                   timerFired, trace, ret, id>>

\* GetClient(rpcURL): Dial, log.Fatalf on failure, else a new handle
GetClient(rpcURL, dialOk) ==
    /\ Quiet
    /\ rpc = NoClient
    /\ lookup # NoLookup
    /\ IF dialOk
         THEN /\ rpc' = [url |-> rpcURL, client |-> [dialed |-> rpcURL]]
              /\ alive' = TRUE
         ELSE /\ rpc' = rpc
              /\ alive' = FALSE
    /\ UNCHANGED <<lookup, prevLookup, op, pc, i, calls, delays, cancelled,
                   timerFired, trace, ret, id>>


(*************************** pass-through methods **************************)
\* what a method that returns the library's result unchanged hands back
Passed_mut(res) == [val |-> res.val, err |-> NilErr]

Passed(res) == [val |-> res.val, err |-> res.err]

\* a method that is one library call
Delegate(method, call, res) ==
    /\ Usable
    /\ op' = method
    /\ pc' = "returned"
    /\ trace' = << [call |-> call, ok |-> res.err = NilErr] >>
    /\ ret' = Passed(res)
    /\ id' = ZeroID
    /\ NoLoop
    /\ UNCHANGED <<lookup, prevLookup, rpc, alive>>

GetBalance(res) == Delegate("GetBalance", "BalanceAt", res)

GetCode(res) == Delegate("GetCode", "CodeAt", res)

GetBlockByNumber(res) == Delegate("GetBlockByNumber", "BlockByNumber", res)

GetTransactionByHash(res) ==
    Delegate("GetTransactionByHash", "TransactionByHash", res)

GetSnapshot_mut(res) ==
    /\ Usable
    /\ op' = "GetSnapshot"
    /\ pc' = "returned"
    /\ trace' = << [call |-> "SnapshotAt", ok |-> res.err = NilErr] >>
    /\ ret' = Passed(res)
    /\ rpc' = [rpc EXCEPT !.client = [dialed |-> "nil"]]
    /\ id' = ZeroID
    /\ NoLoop
    /\ UNCHANGED <<lookup, prevLookup, alive>>

GetSnapshot(res) == Delegate("GetSnapshot", "SnapshotAt", res)

(*************************** GetID *****************************************)
\* the value kept from a best-effort call: nil on error, else what came back
Kept_mut(res) == res.val

Kept(res) == IF res.err # NilErr THEN "nil" ELSE res.val

\* gen.Hash() of a non-nil genesis block; the zero common.Hash otherwise
GenesisHashOf(gen) == IF gen # "nil" THEN "genesisHash" ELSE "zero"

GetIDResult(net, chain, gen) ==
    [NetworkID   |-> Kept(net),
     ChainID     |-> Kept(chain),
     GenesisHash |-> GenesisHashOf(Kept(gen))]

GetID(net, chain, gen) ==
    /\ Usable
    /\ op' = "GetID"
    /\ pc' = "returned"
    /\ trace' = << [call |-> "NetworkID", ok |-> net.err = NilErr],
                   [call |-> "ChainID", ok |-> chain.err = NilErr],
                   [call |-> "BlockByNumber", ok |-> gen.err = NilErr] >>
    /\ id' = GetIDResult(net, chain, gen)
    /\ ret' = [val |-> "id", err |-> NilErr]
    /\ NoLoop
    /\ UNCHANGED <<lookup, prevLookup, rpc, alive>>


(*************************** DeployContract ********************************)
\* privateKey.Public() of an *ecdsa.PrivateKey is always an *ecdsa.PublicKey
PublicKeyIsECDSA == TRUE

Step(call, ok) == [call |-> call, ok |-> ok]

\* in: outcome of each library call, were it reached
\* returns the calls made, in order, and the method's return values
DeployContractRun_mut(in) ==
    LET k  == Step("HexToECDSA", in.key)
        g  == Step("SuggestGasPrice", in.gas)
        n  == Step("PendingNonceAt", in.nonce)
        d  == Step("Decode", in.decode)
        s  == Step("SignTx", in.sign)
        t  == Step("SendTransaction", in.send)
        signedTx == IF in.sign THEN "signedTx" ELSE "nil"
        fail(steps, prefix, call) ==
            [trace |-> steps,
             ret |-> [val |-> "nil", err |-> Wrap(prefix, LibErr(call))]]
    IN  IF ~in.key THEN fail(<<k>>, "Wrong private key:", "HexToECDSA")
        ELSE IF ~in.gas
          THEN fail(<<k, g>>, "Cannot get gas price:", "SuggestGasPrice")
        ELSE IF ~PublicKeyIsECDSA
          THEN [trace |-> <<k, g>>, ret |-> [val |-> "nil", err |-> CastErr]]
        ELSE IF ~in.nonce
          THEN fail(<<k, g, n>>, "Cannot get nonce:", "PendingNonceAt")
        ELSE IF ~in.decode
          THEN fail(<<k, g, n, d>>, "Cannot decode contract data:", "Decode")
        ELSE [trace |-> <<k, g, n, d, s, t>>,
              ret |-> [val |-> signedTx, err |-> NilErr]]

DeployContractRun(in) ==
    LET k  == Step("HexToECDSA", in.key)
        g  == Step("SuggestGasPrice", in.gas)
        n  == Step("PendingNonceAt", in.nonce)
        d  == Step("Decode", in.decode)
        s  == Step("SignTx", in.sign)
        t  == Step("SendTransaction", in.send)
        signedTx == IF in.sign THEN "signedTx" ELSE "nil"
        fail(steps, prefix, call) ==
            [trace |-> steps,
             ret |-> [val |-> "nil", err |-> Wrap(prefix, LibErr(call))]]
    IN  IF ~in.key THEN fail(<<k>>, "Wrong private key:", "HexToECDSA")
        ELSE IF ~in.gas
          THEN fail(<<k, g>>, "Cannot get gas price:", "SuggestGasPrice")
        ELSE IF ~PublicKeyIsECDSA
          THEN [trace |-> <<k, g>>, ret |-> [val |-> "nil", err |-> CastErr]]
        ELSE IF ~in.nonce
          THEN fail(<<k, g, n>>, "Cannot get nonce:", "PendingNonceAt")
        ELSE IF ~in.decode
          THEN fail(<<k, g, n, d>>, "Cannot decode contract data:", "Decode")
        ELSE IF ~in.send
          THEN fail(<<k, g, n, d, s, t>>, "Cannot send transaction:",
                    "SendTransaction")
        ELSE [trace |-> <<k, g, n, d, s, t>>,
              ret |-> [val |-> signedTx, err |-> NilErr]]

DeployInputs ==
    [key : BOOLEAN, gas : BOOLEAN, nonce : BOOLEAN, decode : BOOLEAN,
     sign : BOOLEAN, send : BOOLEAN]

DeployContract(in) ==
    /\ Usable
    /\ op' = "DeployContract"
    /\ pc' = "returned"
    /\ trace' = DeployContractRun(in).trace
    /\ ret' = DeployContractRun(in).ret
    /\ id' = ZeroID
    /\ NoLoop
    /\ UNCHANGED <<lookup, prevLookup, rpc, alive>>


(*************************** WaitForReceipt ********************************)
\* i++ of the for statement
NextI_mut(k) == k

NextI(k) == k + 1

\* what the loop body does with the result of attempt k (k counted from 0):
\* return the receipt, give up, or go on to the select
AfterReceipt_mut(res, k) ==
    IF k >= MaxRetries /\ res.err # NilErr
      THEN [pc |-> "returned",
            ret |-> [val |-> "nil",
                     err |-> Wrap("Cannot get the receipt:", res.err)]]
    ELSE IF k >= MaxRetries
      THEN [pc |-> "returned",
            ret |-> [val |-> "nil",
                     err |-> Wrap("Cannot get the receipt:",
                                  LibErr("TransactionReceipt"))]]
    ELSE IF res.err = NilErr
      THEN [pc |-> "returned", ret |-> [val |-> res.val, err |-> NilErr]]
    ELSE [pc |-> "select", ret |-> NoRet]

AfterReceipt(res, k) ==
    IF res.err = NilErr
      THEN [pc |-> "returned", ret |-> [val |-> res.val, err |-> NilErr]]
    ELSE IF k >= MaxRetries
      THEN [pc |-> "returned",
            ret |-> [val |-> "nil",
                     err |-> Wrap("Cannot get the receipt:", res.err)]]
    ELSE [pc |-> "select", ret |-> NoRet]

\* the caller invokes WaitForReceipt; ctxDone: the context is already
\* cancelled.  The loop starts with the first TransactionReceipt call.
WaitForReceipt(ctxDone) ==
    /\ Usable
    /\ op' = "WaitForReceipt"
    /\ pc' = "call"
    /\ i' = 0
    /\ calls' = 1
    /\ delays' = 0
    /\ cancelled' = ctxDone
    /\ timerFired' = FALSE
    /\ trace' = <<>>
    /\ ret' = NoRet
    /\ id' = ZeroID
    /\ UNCHANGED <<lookup, prevLookup, rpc, alive>>

\* the pending TransactionReceipt call returns res; on the way to the
\* select, time.After starts a fresh timer
TransactionReceiptReturns(res) ==
    /\ alive
    /\ op = "WaitForReceipt"
    /\ pc = "call"
    /\ trace' = Append(trace, Step("TransactionReceipt", res.err = NilErr))
    /\ pc' = AfterReceipt(res, i).pc
    /\ ret' = AfterReceipt(res, i).ret
    /\ delays' = IF AfterReceipt(res, i).pc = "select"
                   THEN delays + 1 ELSE delays
    /\ timerFired' = FALSE
    /\ UNCHANGED <<lookup, prevLookup, rpc, alive, op, i, calls, cancelled,
                   id>>

\* the caller's cancellation signal fires while the invocation runs
Cancel ==
    /\ alive
    /\ op = "WaitForReceipt"
    /\ pc \in {"call", "select"}
    /\ ~cancelled
    /\ cancelled' = TRUE
    /\ UNCHANGED <<lookup, prevLookup, rpc, alive, op, pc, i, calls, delays,
                   timerFired, trace, ret, id>>

\* the 2-second timer expires
TimerFire ==
    /\ alive
    /\ op = "WaitForReceipt"
    /\ pc = "select"
    /\ ~timerFired
    /\ timerFired' = TRUE
    /\ UNCHANGED <<lookup, prevLookup, rpc, alive, op, pc, i, calls, delays,
                   cancelled, trace, ret, id>>

\* a cancellation branch that returns the request's error
SelectDone_mut ==
    /\ alive
    /\ op = "WaitForReceipt"
    /\ pc = "select"
    /\ cancelled
    /\ pc' = "returned"
    /\ ret' = [val |-> "nil", err |-> LibErr("TransactionReceipt")]
    /\ UNCHANGED <<lookup, prevLookup, rpc, alive, op, i, calls, delays,
                   cancelled, timerFired, trace, id>>

\* select takes case <-ctx.Done(): return nil, ctx.Err()
SelectDone ==
    /\ alive
    /\ op = "WaitForReceipt"
    /\ pc = "select"
    /\ cancelled
    /\ pc' = "returned"
    /\ ret' = [val |-> "nil", err |-> CtxErr]
    /\ UNCHANGED <<lookup, prevLookup, rpc, alive, op, i, calls, delays,
                   cancelled, timerFired, trace, id>>

\* a select that does not wait for the timer channel
SelectTimer_mut ==
    /\ alive
    /\ op = "WaitForReceipt"
    /\ pc = "select"
    /\ calls < CallCap
    /\ i' = NextI(i)
    /\ calls' = calls + 1
    /\ pc' = "call"
    /\ UNCHANGED <<lookup, prevLookup, rpc, alive, op, delays, cancelled,
                   timerFired, trace, ret, id>>

\* select takes case <-time.After(...): next iteration, next call
SelectTimer ==
    /\ alive
    /\ op = "WaitForReceipt"
    /\ pc = "select"
    /\ timerFired
    /\ calls < CallCap
    /\ i' = NextI(i)
    /\ calls' = calls + 1
    /\ pc' = "call"
    /\ UNCHANGED <<lookup, prevLookup, rpc, alive, op, delays, cancelled,
                   timerFired, trace, ret, id>>

(*************************** specification *********************************)
Next ==
    \/ \E network \in Networks : Resolve(network)
    \/ \E dialOk \in BOOLEAN : GetClient(lookup.url, dialOk)
    \/ \E res \in LibResults("BalanceAt", "balance") : GetBalance(res)
    \/ \E res \in LibResults("CodeAt", "code") : GetCode(res)
    \/ \E res \in LibResults("BlockByNumber", "block") : GetBlockByNumber(res)
    \/ \E res \in LibResults("TransactionByHash", "tx") :
          GetTransactionByHash(res)
    \/ \E res \in LibResults("SnapshotAt", "snapshot") : GetSnapshot(res)
    \/ \E net \in LooseResults("NetworkID", "netID"),
          chain \in LooseResults("ChainID", "chainID"),
          gen \in LooseResults("BlockByNumber", "genesis") :
          GetID(net, chain, gen)
    \/ \E in \in DeployInputs : DeployContract(in)
    \/ \E ctxDone \in BOOLEAN : WaitForReceipt(ctxDone)
    \/ \E res \in ReceiptResults : TransactionReceiptReturns(res)
    \/ Cancel
    \/ TimerFire
    \/ SelectDone
    \/ SelectTimer

Spec == Init /\ [][Next]_vars

\* each TransactionReceipt call returns, the timer fires, a ready select
\* proceeds
FairSpec ==
    /\ Spec
    /\ WF_vars(\E res \in ReceiptResults : TransactionReceiptReturns(res))
    /\ WF_vars(TimerFire)
    /\ WF_vars(SelectDone \/ SelectTimer)

TypeOK ==
    /\ pc \in {"idle", "call", "select", "returned"}
    /\ i \in 0..MaxRetries
    /\ calls \in 0..CallCap
    /\ alive \in BOOLEAN
    /\ cancelled \in BOOLEAN
    /\ timerFired \in BOOLEAN


(*************************** properties ************************************)
Last(seq) == seq[Len(seq)]

InWait == op = "WaitForReceipt"

Returned(method) == op = method /\ pc = "returned"

AllFailed == \A k \in DOMAIN trace : ~trace[k].ok

Exhausted == Wrap("Cannot get the receipt:", LibErr("TransactionReceipt"))

\* C1: when every receipt request fails and the context is never cancelled,
\* WaitForReceipt issues at most 5 TransactionReceipt calls and then returns
\* a nil receipt with the "Cannot get the receipt" error.
C1_AtMostFiveCalls ==
    (InWait /\ ~cancelled /\ AllFailed) =>
        /\ calls <= 5
        /\ pc = "returned" => ret = [val |-> "nil", err |-> Exhausted]

\* C2: a TransactionReceipt call that returns without error makes
\* WaitForReceipt return exactly that receipt with a nil error, cancelled
\* context or not; a successful return follows failures only, and saw one
\* call per attempt and one delay per failed attempt, so nothing is issued
\* or awaited after the success.
C2_SuccessReturnsReceipt ==
    /\ [][\A res \in ReceiptResults :
            (res.err = NilErr /\ TransactionReceiptReturns(res)) =>
                /\ pc' = "returned"
                /\ ret' = [val |-> res.val, err |-> NilErr]
                /\ calls' = calls
                /\ delays' = delays]_vars
    /\ [](Returned("WaitForReceipt") /\ ret.err = NilErr =>
            /\ Last(trace).ok
            /\ \A k \in 1..(Len(trace) - 1) : ~trace[k].ok
            /\ calls = Len(trace)
            /\ delays = Len(trace) - 1)

C2_Witness ==
    /\ Returned("WaitForReceipt")
    /\ cancelled
    /\ ret = [val |-> "receipt2", err |-> NilErr]
    /\ Len(trace) = MaxRetries + 1

\* C3 as stated: whenever the context is cancelled and the current request
\* has failed, WaitForReceipt returns nil and ctx.Err(), on every attempt.
C3_CancelOnEveryAttempt ==
    (Returned("WaitForReceipt") /\ cancelled /\ ~Last(trace).ok) =>
        ret = [val |-> "nil", err |-> CtxErr]

\* C3 amended: with the context cancelled and the current request failed,
\* WaitForReceipt returns nil and ctx.Err() on each of the first five
\* attempts (unless the timer has expired too, when select may retry), and
\* nil and the exhaustion error on the sixth.
C3_CancelBeforeLastAttempt ==
    /\ []((Returned("WaitForReceipt") /\ cancelled /\ ~Last(trace).ok) =>
            ret = [val |-> "nil",
                   err |-> IF Len(trace) = MaxRetries + 1
                             THEN Exhausted ELSE CtxErr])
    /\ [][(InWait /\ pc = "select" /\ cancelled /\ ~timerFired) =>
            \/ UNCHANGED <<pc, ret, calls>>
            \/ pc' = "returned" /\ ret' = [val |-> "nil", err |-> CtxErr]
                 /\ calls' = calls]_vars

C3_Witness ==
    /\ Returned("WaitForReceipt")
    /\ cancelled
    /\ ret = [val |-> "nil", err |-> CtxErr]
    /\ Len(trace) = MaxRetries

\* C4: every invocation of WaitForReceipt eventually returns.
C4_Terminates == (InWait /\ pc \in {"call", "select"}) ~> (pc = "returned")

C4_Witness ==
    /\ Returned("WaitForReceipt")
    /\ ~cancelled
    /\ AllFailed
    /\ ret.err = Exhausted

\* C5 as stated: a method that saw an underlying call fail returns a
\* non-nil error.
C5_EveryFailureSurfaces ==
    (pc = "returned" /\ \E k \in DOMAIN trace : ~trace[k].ok) =>
        ret.err # NilErr

\* C5 amended: every method other than GetID whose last underlying call
\* failed returns a non-nil error, which is that failure (passed through or
\* wrapped with a prefix) or, from WaitForReceipt's cancellation branch,
\* ctx.Err().
C5_LastFailureSurfaces ==
    (pc = "returned" /\ op \notin {"none", "GetID"} /\ ~Last(trace).ok) =>
        /\ ret.err # NilErr
        /\ ret.err.cause = Last(trace).call \/ (InWait /\ ret.err = CtxErr)

C5_Witness ==
    /\ Returned("GetTransactionByHash")
    /\ ret.err = LibErr("TransactionByHash")

\* C6: NetworkURL maps testnet, localhost, ethereum and ropsten to distinct
\* non-empty URLs, mainnet and the empty name to one URL, every other name
\* to "", and the same name always to the same URL.
OwnURL == {"testnet", "localhost", "ethereum", "ropsten"}

Mainnet == {"mainnet", ""}

C6_LookupTable ==
    lookup # NoLookup =>
        /\ lookup.network \in OwnURL \cup Mainnet => lookup.url # ""
        /\ lookup.network \notin OwnURL \cup Mainnet => lookup.url = ""
        /\ prevLookup # NoLookup =>
            /\ (lookup.network = prevLookup.network) =>
                   lookup.url = prevLookup.url
            /\ (lookup.network \in Mainnet /\ prevLookup.network \in Mainnet)
                   => lookup.url = prevLookup.url
            /\ (/\ lookup.network \in OwnURL
                /\ prevLookup.network \in OwnURL \cup Mainnet
                /\ lookup.network # prevLookup.network)
                   => lookup.url # prevLookup.url

C6_Witness ==
    /\ prevLookup.network = ""
    /\ prevLookup.url # ""
    /\ lookup.network = "Mainnet"
    /\ lookup.url = ""

\* C7: once GetClient has built the handle, no step changes its url or its
\* client.
C7_HandleReadOnly == [][rpc # NoClient => rpc' = rpc]_vars

C7_Witness ==
    /\ rpc # NoClient
    /\ rpc.url = rpc.client.dialed
    /\ Returned("GetSnapshot")

\* C8: DeployContract makes its library calls in the fixed order and stops
\* at the first of key parsing, gas price, nonce, decoding or sending that
\* fails, returning nil and an error; SendTransaction is issued at most
\* once, last, and a non-nil transaction comes back only if it succeeded.
DeployOrder ==
    <<"HexToECDSA", "SuggestGasPrice", "PendingNonceAt", "Decode", "SignTx",
      "SendTransaction">>

C8_DeployLinear ==
    Returned("DeployContract") =>
        /\ Len(trace) <= Len(DeployOrder)
        /\ \A k \in DOMAIN trace : trace[k].call = DeployOrder[k]
        /\ \A k \in DOMAIN trace :
              (~trace[k].ok /\ trace[k].call # "SignTx") =>
                  /\ k = Len(trace)
                  /\ ret.val = "nil"
                  /\ ret.err # NilErr
        /\ ret.val # "nil" =>
              Last(trace) = Step("SendTransaction", TRUE)

C8_Witness ==
    /\ Returned("DeployContract")
    /\ Len(trace) = 3
    /\ ~trace[3].ok
    /\ ret.err = Wrap("Cannot get nonce:", LibErr("PendingNonceAt"))

\* C9 as stated: no TransactionReceipt call begins once the context is
\* cancelled.
C9_NoCallAfterCancel ==
    [][~(cancelled' /\ calls' # calls /\ pc' = "call")]_vars

\* C9 amended: a TransactionReceipt call begins with the context cancelled
\* only as the first call of an invocation or after the delay timer has
\* expired.
C9_NoCallAfterCancelWhileWaiting ==
    [][(cancelled' /\ calls' # calls /\ pc' = "call") =>
          (pc \in {"idle", "returned"} \/ timerFired)]_vars

C9_Witness ==
    /\ Returned("WaitForReceipt")
    /\ ret.err = CtxErr
    /\ ~timerFired
    /\ calls = 2

\* C10: GetID makes the three calls in order whatever fails, returns a
\* non-nil ID and a nil error, and sets each field exactly when its own
\* call succeeded with a non-nil result.
C10_GetIDBestEffort ==
    [][\A net \in LooseResults("NetworkID", "netID"),
          chain \in LooseResults("ChainID", "chainID"),
          gen \in LooseResults("BlockByNumber", "genesis") :
          GetID(net, chain, gen) =>
            /\ trace' = <<Step("NetworkID", net.err = NilErr),
                          Step("ChainID", chain.err = NilErr),
                          Step("BlockByNumber", gen.err = NilErr)>>
            /\ ret' = [val |-> "id", err |-> NilErr]
            /\ id'.NetworkID =
                 (IF net.err = NilErr /\ net.val # "nil"
                    THEN net.val ELSE ZeroID.NetworkID)
            /\ id'.ChainID =
                 (IF chain.err = NilErr /\ chain.val # "nil"
                    THEN chain.val ELSE ZeroID.ChainID)
            /\ (id'.GenesisHash # ZeroID.GenesisHash) <=>
                 (gen.err = NilErr /\ gen.val # "nil")]_vars

C10_Witness ==
    /\ Returned("GetID")
    /\ ~trace[1].ok
    /\ trace[2].ok
    /\ ~trace[3].ok
    /\ id = [NetworkID |-> "nil", ChainID |-> "chainID",
             GenesisHash |-> "zero"]

====
